---- MODULE Spec2Model ----
(***************************************************************************)
(* NQTL Document Assembly Engine (app.py): extract_all_data scans every    *)
(* sheet of a workbook for the TARGET_METRICS and harvests the rows below  *)
(* each anchor; inject_data_into_word walks the tables of a document and   *)
(* writes the harvested values into the matching label rows.               *)
(*                                                                         *)
(* Cell text is a string; TLC treats strings as sequences of characters    *)
(* for Len, SubSeq and \o, which is what the text operators below use.     *)
(* Row and column indices are 0-based as in the code.                      *)
(***************************************************************************)
EXTENDS Integers, Sequences, FiniteSets, TLC

VARIABLES pc, workbook, sheet_idx, row_idx, col_idx, extracted_data, excel_error,
          word_file, doc, doc_in, table_idx, row_pos, current_metric, tables_updated,
          row_log, pass, first_doc, first_count

vars == <<pc, workbook, sheet_idx, row_idx, col_idx, extracted_data, excel_error,
          word_file, doc, doc_in, table_idx, row_pos, current_metric, tables_updated,
          row_log, pass, first_doc, first_count>>

extractVars == <<workbook, sheet_idx, row_idx, col_idx, extracted_data, excel_error>>
injectVars == <<word_file, doc, doc_in, table_idx, row_pos, current_metric, tables_updated,
                row_log, pass, first_doc, first_count>>

----------------------------------------------------------------------------
(* Text operators: str.lower, str.strip, str.replace("\n", " "), `in`.     *)

UpperToLower ==
    [c \in {"A","B","C","D","E","F","G","H","I","J","K","L","M",
            "N","O","P","Q","R","S","T","U","V","W","X","Y","Z"} |->
       CASE c = "A" -> "a" [] c = "B" -> "b" [] c = "C" -> "c" [] c = "D" -> "d"
         [] c = "E" -> "e" [] c = "F" -> "f" [] c = "G" -> "g" [] c = "H" -> "h"
         [] c = "I" -> "i" [] c = "J" -> "j" [] c = "K" -> "k" [] c = "L" -> "l"
         [] c = "M" -> "m" [] c = "N" -> "n" [] c = "O" -> "o" [] c = "P" -> "p"
         [] c = "Q" -> "q" [] c = "R" -> "r" [] c = "S" -> "s" [] c = "T" -> "t"
         [] c = "U" -> "u" [] c = "V" -> "v" [] c = "W" -> "w" [] c = "X" -> "x"
         [] c = "Y" -> "y" [] c = "Z" -> "z"]

LowerChar(c) == IF c \in DOMAIN UpperToLower THEN UpperToLower[c] ELSE c

RECURSIVE Lower(_)
Lower(s) ==
    IF Len(s) <= 1 THEN LowerChar(s)
    ELSE LET h == Len(s) \div 2
         IN Lower(SubSeq(s, 1, h)) \o Lower(SubSeq(s, h + 1, Len(s)))

Whitespace == {" ", "\n", "\t"}

RECURSIVE LStrip(_)
LStrip(s) ==
    IF s # "" /\ SubSeq(s, 1, 1) \in Whitespace
    THEN LStrip(SubSeq(s, 2, Len(s)))
    ELSE s

RECURSIVE RStrip(_)
RStrip(s) ==
    IF s # "" /\ SubSeq(s, Len(s), Len(s)) \in Whitespace
    THEN RStrip(SubSeq(s, 1, Len(s) - 1))
    ELSE s

Strip(s) == RStrip(LStrip(s))

RECURSIVE ReplaceNewlines(_)
ReplaceNewlines(s) ==
    IF Len(s) <= 1 THEN (IF s = "\n" THEN " " ELSE s)
    ELSE LET h == Len(s) \div 2
         IN ReplaceNewlines(SubSeq(s, 1, h))
            \o ReplaceNewlines(SubSeq(s, h + 1, Len(s)))

\* normalize(text) of the design: only ASCII letters and digits are kept,
\* lower-cased.  app.py has no such function.
Alnum ==
    {"a","b","c","d","e","f","g","h","i","j","k","l","m","n","o","p","q","r","s",
     "t","u","v","w","x","y","z","0","1","2","3","4","5","6","7","8","9"}

RECURSIVE Normalize(_)
Normalize(s) ==
    IF Len(s) <= 1 THEN (IF LowerChar(s) \in Alnum THEN LowerChar(s) ELSE "")
    ELSE LET h == Len(s) \div 2
         IN Normalize(SubSeq(s, 1, h)) \o Normalize(SubSeq(s, h + 1, Len(s)))

\* Python's `needle in hay` on strings.
Contains(needle, hay) ==
    \E k \in 1..(Len(hay) - Len(needle) + 1) :
        SubSeq(hay, k, k + Len(needle) - 1) = needle

----------------------------------------------------------------------------
(* The catalog.                                                            *)

TARGET_METRICS == <<
    "Number (#) of Total Claims Incurred During the Plan Year",
    "Percentage (%) of Claims Denied Based on Lack of Medical Necessity",
    "Percentage (%) of Claims Denied Based on Lack of Medical Necessity Overturned on Appeal",
    "Number (#) of Claims Submitted for Prior Authorization",
    "Percentage (%) of Prior Authorization Claims Denied Due to Non-Administrative Reasons",
    "Percentage (%) of Prior Authorization Claims Denied Due to Non-Administrative Reasons Overturned on Appeal",
    "Average Processing Time (in Days) for Prior Authorization Requests",
    "Average Processing Time (in Days) for Prior Authorization Appeals",
    "Number (#) of Claims Submitted for Concurrent Review",
    "Percentage (%) of Concurrent Review Claims Denied Due to Non-Administrative Reasons",
    "Percentage (%) of Concurrent Review Claims Denied Due to Non-Administrative Reasons Overturned on Appeal",
    "Average Processing Time (in Days) for Concurrent Review Requests",
    "Average Processing Time (in Days) for Concurrent Review Appeals",
    "Number (#) of Claims Submitted for Retrospective Review",
    "Percentage (%) of Retrospective Review Claims Denied Due to Non-Administrative Reasons",
    "Percentage (%) of Retrospective Review Claims Denied Due to Non-Administrative Reasons Overturned on Appeal",
    "Average Processing Time (in Days) for Retrospective Review Requests",
    "Average Processing Time (in Days) for Retrospective Review Appeals",
    "Percentage (%) of Claims Denied as Experimental/Investigational",
    "Average Processing Time (in Days) for Experimental/Investigational Requests",
    "Percentage (%) of Experimental/Investigational Claims Appealed",
    "Percentage (%) of Experimental/Investigational Denials Overturned on Appeal",
    "Average Processing Time (in Days) for Experimental/Investigational Appeals" >>

\* `metric.lower() in cell_value.lower()`; lower() keeps the length, so a
\* text shorter than the metric cannot contain it.
MetricIn(metric, text) ==
    /\ Len(metric) <= Len(text)
    /\ Contains(Lower(metric), Lower(text))

----------------------------------------------------------------------------
(* The grid (a DataFrame read with header=None).                           *)

NumRows(df) == Len(df)
NumCols(df) == IF Len(df) = 0 THEN 0 ELSE Len(df[1])

\* str(df.iloc[r, c]): cells hold the str() of their value, "nan" when blank.
Cell(df, r, c) == df[r + 1][c + 1]

----------------------------------------------------------------------------
(* extract_all_data                                                        *)

ScanCols == 2
WindowStop == 15
ValueStop == 5

\* extracted_data is a dict in insertion order: a sequence of entries
\* [metric, rows], rows being the inner dict label -> vals.
HasKey(ed, m) == \E k \in 1..Len(ed) : ed[k].metric = m
KeyIndex(ed, m) == CHOOSE k \in 1..Len(ed) : ed[k].metric = m
RowsOf(ed, m) == ed[KeyIndex(ed, m)].rows

\* Lines 69: rows that the window skips.
SkipLabel(row_label) ==
    \/ row_label = ""
    \/ Lower(row_label) = "nan"
    \/ row_label \in {"M/S", "MH", "SUD"}

\* CleanVal with the fault that only the lower-case spelling is recognised.
CleanValExact(val) == IF val = "nan" THEN "" ELSE val

\* Line 77: the absent marker becomes the empty string.
CleanVal(val) == IF Lower(val) = "nan" THEN "" ELSE val

\* ReadVals with the fault that columns past the right edge are left out.
ReadValsInGrid(df, r, c) ==
    [v_col \in {v \in 1..(ValueStop - 1) : c + v < NumCols(df)} |->
        CleanVal(Strip(Cell(df, r, c + v_col)))]

\* Lines 73-79: the next 4 columns right of the label cell.
ReadVals(df, r, c) ==
    [v_col \in 1..(ValueStop - 1) |->
        IF c + v_col < NumCols(df)
        THEN CleanVal(Strip(Cell(df, r, c + v_col)))
        ELSE ""]

\* SetRow with the fault that an entry already present is kept.
SetRowKeepFirst(rows, row_label, vals) == rows @@ (row_label :> vals)

\* Line 81: extracted_data[metric][row_label] = vals
SetRow(rows, row_label, vals) == (row_label :> vals) @@ rows

\* WindowOver with the fault that the window runs one row further.
WindowOverLate(i) == i > WindowStop

\* Line 64: range(1, 15) stops before 15.
WindowOver(i) == i >= WindowStop

\* Lines 64-81: the rows below an anchor, for i = 1 .. 14.
RECURSIVE HarvestWindow(_, _, _, _, _)
HarvestWindow(df, r, c, rows, i) ==
    IF WindowOver(i) THEN rows
    ELSE IF r + i < NumRows(df)
         THEN LET row_label == Strip(Cell(df, r + i, c)) IN
              IF SkipLabel(row_label)
              THEN HarvestWindow(df, r, c, rows, i + 1)
              ELSE HarvestWindow(df, r, c,
                                 SetRow(rows, row_label, ReadVals(df, r + i, c)),
                                 i + 1)
         ELSE HarvestWindow(df, r, c, rows, i + 1)

\* Lines 60-61: create the metric's entry on its first anchor.
EnsureKey(ed, metric) ==
    IF HasKey(ed, metric) THEN ed
    ELSE Append(ed, [metric |-> metric, rows |-> <<>>])

\* Lines 58-81: every metric of the catalog found in the cell anchors there.
RECURSIVE ScanMetrics(_, _, _, _, _, _)
ScanMetrics(df, r, c, cell_value, ed, k) ==
    IF k > Len(TARGET_METRICS) THEN ed
    ELSE LET metric == TARGET_METRICS[k] IN
         IF MetricIn(metric, cell_value)
         THEN LET ed1 == EnsureKey(ed, metric)
                  j == KeyIndex(ed1, metric)
              IN ScanMetrics(df, r, c, cell_value,
                             [ed1 EXCEPT ![j].rows = HarvestWindow(df, r, c, @, 1)],
                             k + 1)
         ELSE ScanMetrics(df, r, c, cell_value, ed, k + 1)

\* Lines 56-81: one iteration of the (row_idx, col_idx) loops.
ScanCellResult(df, r, c, ed) ==
    ScanMetrics(df, r, c, Strip(Cell(df, r, c)), ed, 1)

----------------------------------------------------------------------------
(* Inputs: workbooks.  A sheet is laid out by placing texts on a grid of   *)
(* blank ("nan") cells; placements outside the grid are clipped.           *)

MaxCols == 6
MaxRows == 17
MaxSheets == 2
MaxCells == 5

Grid(nr, nc, placed) ==
    [r \in 1..nr |-> [c \in 1..nc |->
        IF \E p \in placed : p[1] = r - 1 /\ p[2] = c - 1
        THEN (CHOOSE p \in placed : p[1] = r - 1 /\ p[2] = c - 1)[3]
        ELSE "nan"]]

LabelRow(r, c, label, vals) ==
    {<<r, c, label>>} \cup {<<r, c + k, vals[k]>> : k \in 1..Len(vals)}

MPA == TARGET_METRICS[4]
MDen == TARGET_METRICS[2]
MDenApp == TARGET_METRICS[3]

V1 == <<"120", "45", "12">>
V2 == <<"7", "8", "9", "10">>
VSome == <<"120", "NaN", " 12 ">>
VNone == <<"nan", "NAN", "NaN">>

\* One anchor at row 1 under a title, column headers, then two label rows.
OneAnchor(nr, nc, c, mt, l2, vals) ==
    Grid(nr, nc,
         {<<0, 0, "NQTL Data Request">>, <<1, c, mt>>,
          <<2, c + 1, "M/S">>, <<2, c + 2, "MH">>, <<2, c + 3, "SUD">>}
         \cup LabelRow(3, c, "Inpatient IN", vals)
         \cup LabelRow(4, c, l2, V2))

\* Two anchors in one column, the second d rows below the first, each
\* followed by its own row for the same label.
TwoAnchors(nr, nc, c, m1, m2, d, off2) ==
    Grid(nr, nc,
         {<<0, c, m1>>, <<d, c, m2>>}
         \cup LabelRow(1, c, "Inpatient IN", V1)
         \cup LabelRow(d + off2, c, "Inpatient IN", V2))

\* The same metric in both scanned columns of one row.
BothCols(nr, nc) ==
    Grid(nr, nc, {<<0, 0, MPA>>, <<0, 1, MPA>>}
                 \cup LabelRow(1, 0, "Inpatient IN", <<"Inpatient IN", "5", "6">>))

AnchorTexts ==
    {MPA,
     "  Table 2 - number (#) of claims submitted for PRIOR AUTHORIZATION ",
     "submittedforpriorauth"}

FirstSheets ==
    {OneAnchor(5, nc, 0, MPA, "Outpatient IN", V1) : nc \in 1..MaxCols}
    \cup {OneAnchor(5, nc, 1, MPA, "Outpatient IN", V1) : nc \in {2, 4, MaxCols}}
    \cup {OneAnchor(nr, 5, 0, MPA, "Outpatient IN", V1) : nr \in {2, 4}}
    \cup {OneAnchor(5, 5, 0, mt, "Outpatient IN", V1) : mt \in AnchorTexts}
    \cup {OneAnchor(5, 5, 0, MPA, "Outpatient IN", vals) : vals \in {VSome, VNone}}
    \cup {OneAnchor(5, 5, 0, MPA, "Inpatient IN", V1)}
    \cup {TwoAnchors(MaxRows, 5, 0, MDen, MPA, d, off2) : d \in {2, 13}, off2 \in 1..2}
    \cup {TwoAnchors(MaxRows, 5, 0, MPA, MPA, 2, 1),
          TwoAnchors(MaxRows, 5, 0, MPA, MPA, 13, 2),
          TwoAnchors(MaxRows, 5, 1, MDen, MPA, 2, 1),
          TwoAnchors(3, 1, 0, MDen, MPA, 2, 1),
          TwoAnchors(MaxRows, 5, 0, MDenApp, MDen, 13, 2),
          BothCols(2, 4), <<>>}

\* The first sheets that are also tried with further sheets behind them.
LeadSheets ==
    {OneAnchor(5, 5, 0, MPA, "Outpatient IN", V1),
     OneAnchor(5, 5, 0, MPA, "Outpatient IN", VSome),
     OneAnchor(5, 1, 0, MPA, "Outpatient IN", V1),
     TwoAnchors(MaxRows, 5, 0, MDen, MPA, 2, 1),
     BothCols(2, 4), <<>>}

LaterSheets ==
    {OneAnchor(5, 5, 0, MPA, "Outpatient IN", V2),
     OneAnchor(5, 1, 0, MPA, "Outpatient IN", V1)}

RECURSIVE Workbooks(_)
Workbooks(n) ==
    IF n = 1 THEN {<<s>> : s \in FirstSheets}
    ELSE Workbooks(n - 1)
         \cup {Append(wb, s) :
                  wb \in {w \in Workbooks(n - 1) : Len(w) = n - 1 /\ w[1] \in LeadSheets},
                  s \in LaterSheets}

----------------------------------------------------------------------------
(* extract_all_data as steps: open the workbook, read a sheet, scan one    *)
(* cell.  pd.ExcelFile and pd.read_excel may raise; df.iloc raises         *)
(* IndexError past the last column.  Every exception ends the function     *)
(* at line 82 with what was harvested so far.                              *)

None == ""

Init ==
    /\ pc = "idle"
    /\ workbook = <<>>
    /\ sheet_idx = 1
    /\ row_idx = 0
    /\ col_idx = 0
    /\ extracted_data = <<>>
    /\ excel_error = None
    /\ word_file = <<>>
    /\ doc = <<>>
    /\ doc_in = <<>>
    /\ table_idx = 1
    /\ row_pos = 1
    /\ current_metric = None
    /\ tables_updated = 0
    /\ row_log = <<>>
    /\ pass = 0
    /\ first_doc = <<>>
    /\ first_count = 0

\* EmptyResult with the fault that every metric of the catalog gets an entry
\* before the scan.
PrefilledResult ==
    [k \in 1..Len(TARGET_METRICS) |-> [metric |-> TARGET_METRICS[k], rows |-> <<>>]]

\* Line 45: extracted_data = {}
EmptyResult == <<>>

\* Line 45-47, 50: the workbook opens; its sheets are visited in order.
StartExtract ==
    /\ pc = "idle"
    /\ \E wb \in Workbooks(MaxSheets) :
        /\ workbook' = wb
        /\ pc' = "read_sheet"
    /\ extracted_data' = EmptyResult
    /\ UNCHANGED <<sheet_idx, row_idx, col_idx, excel_error>>
    /\ UNCHANGED injectVars

\* ReturnedOnError with the fault that a failure discards what was harvested.
ReturnedOnErrorEmpty(ed) == <<>>

\* Lines 82-85: the handler reports the error and the function returns
\* extracted_data as it stands.
ReturnedOnError(ed) == ed

\* Line 47 raising: no sheet is read and nothing is extracted.
OpenRaises ==
    /\ pc = "idle"
    /\ workbook' = <<>>
    /\ extracted_data' = ReturnedOnError(EmptyResult)
    /\ excel_error' = "ExcelFile"
    /\ pc' = "extracted"
    /\ UNCHANGED <<sheet_idx, row_idx, col_idx>>
    /\ UNCHANGED injectVars

\* Where the loops of lines 50-55 stand after the cell (r, c) of sheet s.
AfterSheet(s) ==
    IF s < Len(workbook)
    THEN [pc |-> "read_sheet", s |-> s + 1, r |-> 0, c |-> 0]
    ELSE [pc |-> "extracted", s |-> s + 1, r |-> 0, c |-> 0]

AfterCell(s, r, c) ==
    IF c + 1 < ScanCols THEN [pc |-> "scan", s |-> s, r |-> r, c |-> c + 1]
    ELSE IF r + 1 < NumRows(workbook[s])
         THEN [pc |-> "scan", s |-> s, r |-> r + 1, c |-> 0]
         ELSE AfterSheet(s)

\* Line 51, 54: the sheet is read; a sheet with no rows is passed over.
ReadSheet ==
    /\ pc = "read_sheet"
    /\ LET nxt == IF NumRows(workbook[sheet_idx]) = 0
                  THEN AfterSheet(sheet_idx)
                  ELSE [pc |-> "scan", s |-> sheet_idx, r |-> 0, c |-> 0]
       IN /\ pc' = nxt.pc
          /\ sheet_idx' = nxt.s
          /\ row_idx' = nxt.r
          /\ col_idx' = nxt.c
    /\ UNCHANGED <<workbook, extracted_data, excel_error>>
    /\ UNCHANGED injectVars

\* Line 51 raising.
ReadSheetRaises ==
    /\ pc = "read_sheet"
    /\ excel_error' = "read_excel"
    /\ pc' = "extracted"
    /\ extracted_data' = ReturnedOnError(extracted_data)
    /\ UNCHANGED <<workbook, sheet_idx, row_idx, col_idx>>
    /\ UNCHANGED injectVars

\* Lines 56-81 for the cell (row_idx, col_idx).
ScanCell ==
    /\ pc = "scan"
    /\ col_idx < NumCols(workbook[sheet_idx])
    /\ extracted_data' =
          ScanCellResult(workbook[sheet_idx], row_idx, col_idx, extracted_data)
    /\ LET nxt == AfterCell(sheet_idx, row_idx, col_idx)
       IN /\ pc' = nxt.pc
          /\ sheet_idx' = nxt.s
          /\ row_idx' = nxt.r
          /\ col_idx' = nxt.c
    /\ UNCHANGED <<workbook, excel_error>>
    /\ UNCHANGED injectVars

\* Line 56 on a sheet with one column: df.iloc[row_idx, 1] raises IndexError.
ScanCellRaises ==
    /\ pc = "scan"
    /\ col_idx >= NumCols(workbook[sheet_idx])
    /\ excel_error' = "IndexError"
    /\ pc' = "extracted"
    /\ extracted_data' = ReturnedOnError(extracted_data)
    /\ UNCHANGED <<workbook, sheet_idx, row_idx, col_idx>>
    /\ UNCHANGED injectVars

----------------------------------------------------------------------------
(* Inputs: documents.  A document is its tables, a table its rows, a row   *)
(* the texts of its cells.                                                 *)

Row(label, n, prior) == [k \in 1..n |-> IF k = 1 THEN label ELSE prior]

MetricTable(h, l1, n1, prior) ==
    << Row(h, 5, ""), Row(l1, n1, prior), Row("Outpatient IN", 5, prior) >>

HeaderTexts ==
    {MPA,
     "Submitted for Prior Authorization",
     " Table 2:\nnumber (#) of claims submitted\nfor prior authorization\n",
     MDen, MDenApp}

DocLabels == {"Inpatient IN", "inpatient in", "Inpatient-IN", " Inpatient IN\n"}

Docs ==
    {<<MetricTable(h, "Inpatient IN", 5, "TBD")>> : h \in HeaderTexts}
    \cup {<<MetricTable(MPA, l, 5, "")>> : l \in DocLabels}
    \cup {<<MetricTable(MPA, "Inpatient IN", n, "TBD")>> : n \in 0..MaxCells}
    \cup {<< <<Row("Submitted for Prior Authorization", 1, ""),
               Row("Inpatient IN", 5, "TBD")>> >>}
    \cup {<< <<Row(MPA, 1, ""), Row("Inpatient IN", 5, "TBD")>>,
             <<Row("Inpatient IN", 5, "TBD"), Row(MDen, 2, ""),
               Row("", 3, ""), Row("Inpatient IN", 5, "")>> >>,
          <<>>}

----------------------------------------------------------------------------
(* inject_data_into_word                                                   *)

\* Line 100: row.cells[0].text.strip().replace("\n", " ")
HeaderText(cells) == ReplaceNewlines(Strip(cells[1]))

\* Line 103: the first key, in insertion order, found in the header text.
RECURSIVE FirstMatch(_, _, _)
FirstMatch(client_data, header_text, k) ==
    IF k > Len(client_data) THEN None
    ELSE IF MetricIn(client_data[k].metric, header_text)
         THEN client_data[k].metric
         ELSE FirstMatch(client_data, header_text, k + 1)

MatchedMetric(client_data, header_text) == FirstMatch(client_data, header_text, 1)

Min(a, b) == IF a <= b THEN a ELSE b

\* InjectBound with the fault that the row's length is not taken into account.
InjectBoundNoMin(data_vals, cells) == Len(data_vals)

\* Line 115: range(min(len(data_vals), len(row.cells) - 1))
InjectBound(data_vals, cells) == Min(Len(data_vals), Len(cells) - 1)

\* Pulled with the fault that every value is written, empty ones too.
PulledAlways(val) == TRUE

\* Line 116: only a non-empty value is written.
Pulled(val) == val # ""

\* SetText with the fault that the value is appended to the cell's text.
SetTextAppend(old, val) == old \o val

\* Line 117: assigning .text replaces the cell's text.
SetText(old, val) == val

\* Lines 115-118 from index i on; indexing past either list raises.
\* TargetCell with the fault that element i goes to cell i.
TargetCellLabel(i) == i + 1

\* Line 117: row.cells[i+1], as a 1-based position in the row.
TargetCell(i) == i + 2

RECURSIVE WriteCells(_, _, _, _, _)
WriteCells(cells, data_vals, i, bound, wrote) ==
    IF i >= bound THEN [cells |-> cells, wrote |-> wrote, raised |-> FALSE]
    ELSE IF i >= Len(data_vals)
         THEN [cells |-> cells, wrote |-> wrote, raised |-> TRUE]
         ELSE IF Pulled(data_vals[i + 1])
              THEN IF i + 1 >= Len(cells)
                   THEN [cells |-> cells, wrote |-> wrote, raised |-> TRUE]
                   ELSE WriteCells([cells EXCEPT ![TargetCell(i)] = SetText(@, data_vals[i + 1])],
                                   data_vals, i + 1, bound, wrote \cup {i + 1})
              ELSE WriteCells(cells, data_vals, i + 1, bound, wrote)

\* Line 110: a data row under a known metric.
IsDataRow(client_data, cm, header_text) ==
    /\ cm # None
    /\ header_text \in DOMAIN RowsOf(client_data, cm)

\* CountRow with the fault that every matched row is counted.
CountRowAlways(count, cells_injected) == count + 1

\* Lines 120-121
CountRow(count, cells_injected) == IF cells_injected THEN count + 1 ELSE count

\* ResetOnBlank with the fault that a blank first cell keeps the metric.
ResetNever(cm, header_text) == cm

\* Lines 124-125
ResetOnBlank(cm, header_text) == IF header_text = "" THEN None ELSE cm

\* Lines 98-128: the body of the row loop, with its try/except.
ProcessRow(cells, cm, count, client_data) ==
    IF Len(cells) = 0
    THEN [cells |-> cells, cm |-> cm, count |-> count, raised |-> TRUE,
          header |-> FALSE, data |-> FALSE, wrote |-> {}]
    ELSE LET header_text == HeaderText(cells)
             matched_metric == MatchedMetric(client_data, header_text)
         IN IF matched_metric # None
            THEN [cells |-> cells, cm |-> matched_metric, count |-> count,
                  raised |-> FALSE, header |-> TRUE, data |-> FALSE, wrote |-> {}]
            ELSE IF IsDataRow(client_data, cm, header_text)
                 THEN LET data_vals == RowsOf(client_data, cm)[header_text]
                          w == WriteCells(cells, data_vals, 0,
                                          InjectBound(data_vals, cells), {})
                      IN IF w.raised
                         THEN [cells |-> w.cells, cm |-> cm, count |-> count,
                               raised |-> TRUE, header |-> FALSE, data |-> TRUE,
                               wrote |-> w.wrote]
                         ELSE [cells |-> w.cells,
                               cm |-> ResetOnBlank(cm, header_text),
                               count |-> CountRow(count, w.wrote # {}),
                               raised |-> FALSE, header |-> FALSE, data |-> TRUE,
                               wrote |-> w.wrote]
                 ELSE [cells |-> cells, cm |-> ResetOnBlank(cm, header_text),
                       count |-> count, raised |-> FALSE, header |-> FALSE,
                       data |-> FALSE, wrote |-> {}]

\* Lines 94, 97: the first row at or after table t, skipping tables without rows.
RECURSIVE FirstRowFrom(_, _)
FirstRowFrom(d, t) ==
    IF t > Len(d) THEN [pc |-> "done", t |-> t]
    ELSE IF Len(d[t]) = 0 THEN FirstRowFrom(d, t + 1)
         ELSE [pc |-> "inject", t |-> t]

\* MetricAtTableStart with the fault that the metric of the previous table
\* stays active.
MetricCarriedOver(cm) == cm

\* Line 95: current_metric = None at the start of every table.
MetricAtTableStart(cm) == None

\* Lines 91-92: a pass over a document starts.
BeginPass(d) ==
    /\ doc' = d
    /\ doc_in' = d
    /\ tables_updated' = 0
    /\ row_log' = <<>>
    /\ current_metric' = None
    /\ row_pos' = 1
    /\ LET nxt == FirstRowFrom(d, 1)
       IN pc' = nxt.pc /\ table_idx' = nxt.t

\* inject_data_into_word(word_file, extracted_data) is called.
StartInject ==
    /\ pc = "extracted"
    /\ \E d \in Docs : word_file' = d /\ BeginPass(d)
    /\ pass' = 1
    /\ UNCHANGED <<first_doc, first_count>>
    /\ UNCHANGED extractVars

\* Lines 97-128 for the row (table_idx, row_pos); line 95 when the next
\* table starts.
InjectRow ==
    /\ pc = "inject"
    /\ LET res == ProcessRow(doc[table_idx][row_pos], current_metric,
                             tables_updated, extracted_data)
           last == row_pos = Len(doc[table_idx])
           nxt == IF last THEN FirstRowFrom(doc, table_idx + 1)
                  ELSE [pc |-> "inject", t |-> table_idx]
       IN /\ doc' = [doc EXCEPT ![table_idx][row_pos] = res.cells]
          /\ tables_updated' = res.count
          /\ current_metric' = IF last THEN MetricAtTableStart(res.cm) ELSE res.cm
          /\ row_log' = Append(row_log,
                [t |-> table_idx, r |-> row_pos, metric |-> current_metric,
                 metric_after |-> res.cm, header |-> res.header,
                 data |-> res.data, raised |-> res.raised, wrote |-> res.wrote])
          /\ pc' = nxt.pc
          /\ table_idx' = nxt.t
          /\ row_pos' = IF last THEN 1 ELSE row_pos + 1
    /\ UNCHANGED <<word_file, doc_in, pass, first_doc, first_count>>
    /\ UNCHANGED extractVars

\* The function is run again on the document it returned, same client_data.
InjectAgain ==
    /\ pc = "done"
    /\ pass = 1
    /\ first_doc' = doc
    /\ first_count' = tables_updated
    /\ pass' = 2
    /\ BeginPass(doc)
    /\ UNCHANGED word_file
    /\ UNCHANGED extractVars

Next ==
    \/ StartExtract
    \/ OpenRaises
    \/ ReadSheet
    \/ ReadSheetRaises
    \/ ScanCell
    \/ ScanCellRaises
    \/ StartInject
    \/ InjectRow
    \/ InjectAgain

Spec == Init /\ [][Next]_vars

----------------------------------------------------------------------------
(* What the workbook holds, read off the grid.                             *)

SheetIds == 1..Len(workbook)
RowIds(s) == 0..(NumRows(workbook[s]) - 1)
ScannedCols(s) == {c \in 0..(ScanCols - 1) : c < NumCols(workbook[s])}
LookAhead == 1..(WindowStop - 1)

\* The cell (r, c) of sheet s holds the name of metric m.
AnchorAt(s, r, c, m) == MetricIn(m, Strip(Cell(workbook[s], r, c)))

\* The anchors <<s, r, c>> of metric m in the whole workbook.
AnchorsOf(m) ==
    UNION {UNION {{<<s, r, c>> : c \in {x \in ScannedCols(s) : AnchorAt(s, r, x, m)}} :
                  r \in RowIds(s)} : s \in SheetIds}

\* The label text of row r in column c after strip.
LabelAt(s, r, c) == Strip(Cell(workbook[s], r, c))

\* The cell (r, c) of sheet s was scanned before the position the loops
\* stand at.
Scanned(s, r, c) ==
    \/ s < sheet_idx
    \/ s = sheet_idx /\ (r < row_idx \/ (r = row_idx /\ c < col_idx))

\* The harvests <<s, r, c, i>> of (m, label) made so far: a scanned anchor
\* of m with the label i rows below it, inside the window.
Harvests(m, label) ==
    UNION {{<<a[1], a[2], a[3], i>> :
              i \in {j \in LookAhead :
                        /\ a[2] + j < NumRows(workbook[a[1]])
                        /\ LabelAt(a[1], a[2] + j, a[3]) = label}} :
           a \in {b \in AnchorsOf(m) : Scanned(b[1], b[2], b[3])}}

\* Scan order: sheet, row, column, window row.
ScannedBefore(h, g) ==
    \/ h[1] < g[1]
    \/ h[1] = g[1] /\ h[2] < g[2]
    \/ h[1] = g[1] /\ h[2] = g[2] /\ h[3] < g[3]
    \/ h[1] = g[1] /\ h[2] = g[2] /\ h[3] = g[3] /\ h[4] < g[4]

LastHarvest(m, label) ==
    CHOOSE h \in Harvests(m, label) :
        \A g \in Harvests(m, label) : g = h \/ ScannedBefore(g, h)

\* The texts right of the label cell of a harvest, blank past the grid.
TupleAt(h) == ReadVals(workbook[h[1]], h[2] + h[4], h[3])

NoRaise == excel_error = None

----------------------------------------------------------------------------
(* What the walk did to a row, read off the log and the two documents.     *)

LogIds == 1..Len(row_log)
CellsBefore(e) == doc_in[e.t][e.r]
CellsAfter(e) == doc[e.t][e.r]
LabelOf(e) == HeaderText(CellsBefore(e))

\* The row was a label row processed under an active metric.
LabelRowUnder(e) ==
    /\ e.metric # None
    /\ ~e.header
    /\ Len(CellsBefore(e)) > 0
    /\ LabelOf(e) \in DOMAIN RowsOf(extracted_data, e.metric)

StoredFor(e) == RowsOf(extracted_data, e.metric)[LabelOf(e)]

----------------------------------------------------------------------------
(* C1: a sheet holds an anchor of the prior-authorization count, the label *)
(* row "Inpatient IN" two rows below it with three non-empty values, and   *)
(* the document is one table with the header "Submitted for Prior          *)
(* Authorization" and a row "Inpatient IN" of 5 cells: the pass returns 1, *)
(* cells 2-4 of the row read the three values and the label is unchanged.  *)

C1_Workbook(s, r, c) ==
    /\ AnchorsOf(MPA) = {<<s, r, c>>}
    /\ r + 2 < NumRows(workbook[s])
    /\ LabelAt(s, r + 2, c) = "Inpatient IN"
    /\ \A j \in LookAhead \ {2} :
          r + j < NumRows(workbook[s]) => LabelAt(s, r + j, c) # "Inpatient IN"
    /\ c + 3 < NumCols(workbook[s])
    /\ \A k \in 1..3 : ReadVals(workbook[s], r + 2, c)[k] # ""

C1_Document ==
    /\ Len(word_file) = 1
    /\ Len(word_file[1]) = 2
    /\ Len(word_file[1][1]) > 0
    /\ word_file[1][1][1] = "Submitted for Prior Authorization"
    /\ Len(word_file[1][2]) = 5
    /\ word_file[1][2][1] = "Inpatient IN"

\* C1: in the scenario the pass returns 1, cells 2-4 of the label row read
\* the three harvested values and the label cell is unchanged.
C1_EndToEndScenario ==
    (pc = "done" /\ pass = 1 /\ NoRaise /\ C1_Document) =>
        \A s \in SheetIds : \A r \in RowIds(s) : \A c \in ScannedCols(s) :
            C1_Workbook(s, r, c) =>
                /\ tables_updated = 1
                /\ \A k \in 1..3 :
                      doc[1][2][k + 1] = ReadVals(workbook[s], r + 2, c)[k]
                /\ doc[1][2][1] = word_file[1][2][1]

----------------------------------------------------------------------------
(* C2: two distinct metrics anchor in one column, the second fewer than W  *)
(* rows below the first, each followed by its own row for one label (the   *)
(* first's between the anchors, the second's below the second anchor):     *)
(* after extraction each metric's entry for the label is the tuple of its  *)
(* own row.                                                                *)

MetricIds == 1..Len(TARGET_METRICS)

\* The rows of column c of sheet s that carry the label.
RowsLabelled(s, c, label) == {x \in RowIds(s) : LabelAt(s, x, c) = label}

\* The labels that column c of sheet s carries.
LabelsIn(s, c) == {LabelAt(s, x, c) : x \in RowIds(s)} \ {l \in {LabelAt(s, x, c) : x \in RowIds(s)} : SkipLabel(l)}

\* m1 anchors once, at a1, and m2 once, at a2, in the same column, a2 fewer
\* than W rows below a1; the label has exactly two rows below a1: one
\* between the anchors and one inside the window below a2.
C2_Layout(a1, a2, label) ==
    /\ a1[1] = a2[1] /\ a1[3] = a2[3]
    /\ a1[2] < a2[2] /\ a2[2] - a1[2] < WindowStop - 1
    /\ LET below == {x \in RowsLabelled(a1[1], a1[3], label) : x > a1[2]}
       IN /\ Cardinality(below) = 2
          /\ \E x \in below : x < a2[2]
          /\ \E x \in below : x > a2[2] /\ x - a2[2] < WindowStop

C2_OwnRow(a1, a2, label, first) ==
    CHOOSE x \in RowsLabelled(a1[1], a1[3], label) :
        x > a1[2] /\ (first <=> x < a2[2])

\* C2: after extraction each of the two metrics holds, for the label, the
\* tuple read from its own row.
C2_OwnRowsAttributed ==
    (pc = "extracted" /\ NoRaise) =>
        LET anchors == [j \in MetricIds |-> AnchorsOf(TARGET_METRICS[j])]
            once == {j \in MetricIds : Cardinality(anchors[j]) = 1}
        IN \A j1, j2 \in once :
             j1 # j2 =>
               LET a1 == CHOOSE a \in anchors[j1] : TRUE
                   a2 == CHOOSE a \in anchors[j2] : TRUE
                   m1 == TARGET_METRICS[j1]
                   m2 == TARGET_METRICS[j2]
               IN \A label \in LabelsIn(a1[1], a1[3]) :
                    C2_Layout(a1, a2, label) =>
                       /\ HasKey(extracted_data, m1)
                       /\ HasKey(extracted_data, m2)
                       /\ label \in DOMAIN RowsOf(extracted_data, m1)
                       /\ label \in DOMAIN RowsOf(extracted_data, m2)
                       /\ RowsOf(extracted_data, m1)[label]
                             = ReadVals(workbook[a1[1]],
                                        C2_OwnRow(a1, a2, label, TRUE), a1[3])
                       /\ RowsOf(extracted_data, m2)[label]
                             = ReadVals(workbook[a1[1]],
                                        C2_OwnRow(a1, a2, label, FALSE), a1[3])

----------------------------------------------------------------------------
(* C3: for every label row processed under an active metric and every      *)
(* position i whose stored element is the empty string, the cell at        *)
(* position i+1 has after the pass the text it had before it.              *)

\* C3: a cell whose stored element is empty keeps its prior text.
C3_NonDestructiveSkip ==
    \A k \in LogIds :
        LET e == row_log[k] IN
        LabelRowUnder(e) =>
            \A i \in 1..Len(StoredFor(e)) :
                (StoredFor(e)[i] = "" /\ i + 1 <= Len(CellsBefore(e))) =>
                    CellsAfter(e)[i + 1] = CellsBefore(e)[i + 1]

C3_Witness ==
    /\ pc = "done"
    /\ \E k \in LogIds :
        LET e == row_log[k] IN
        /\ LabelRowUnder(e)
        /\ e.wrote # {}
        /\ \E i \in 1..Len(StoredFor(e)) :
              /\ StoredFor(e)[i] = ""
              /\ i + 1 <= Len(CellsBefore(e))
              /\ CellsBefore(e)[i + 1] = "TBD"
              /\ CellsAfter(e)[i + 1] = "TBD"

----------------------------------------------------------------------------
(* C4: whenever a (metric, label) pair has been harvested more than once,  *)
(* the result holds for it the tuple of the harvest made last in scan      *)
(* order (sheet, row, column, window row), unmerged.                       *)

\* C4: every stored tuple is the tuple of the last harvest of its pair.
C4_LastOccurrenceWins ==
    pc \in {"read_sheet", "scan", "extracted"} =>
        \A k \in 1..Len(extracted_data) :
            \A label \in DOMAIN extracted_data[k].rows :
                /\ Harvests(extracted_data[k].metric, label) # {}
                /\ extracted_data[k].rows[label]
                      = TupleAt(LastHarvest(extracted_data[k].metric, label))

C4_Witness ==
    /\ pc = "extracted"
    /\ \E k \in 1..Len(extracted_data) :
        \E label \in DOMAIN extracted_data[k].rows :
            \E h, g \in Harvests(extracted_data[k].metric, label) :
                /\ h[1] < g[1]
                /\ TupleAt(h) # TupleAt(g)
                /\ extracted_data[k].rows[label] = TupleAt(g)

----------------------------------------------------------------------------
(* C5: a second pass over the document the first pass produced, with the   *)
(* same extraction result, leaves every cell as the first pass left it and *)
(* reports the same count.                                                 *)

\* C5: the second pass ends with the first pass's cells and count.
C5_InjectionIdempotent ==
    (pc = "done" /\ pass = 2) =>
        /\ doc = first_doc
        /\ tables_updated = first_count

C5_Witness ==
    /\ pc = "done"
    /\ pass = 2
    /\ first_count >= 1
    /\ first_doc # word_file
    /\ \E t \in 1..Len(doc) : \E r \in 1..Len(doc[t]) : \E i \in 1..Len(doc[t][r]) :
          word_file[t][r][i] = "TBD" /\ doc[t][r][i] = "120"

----------------------------------------------------------------------------
(* C6: the count returned is the number of rows in which at least one cell *)
(* was written: a matched row whose tuple is all empty, or that has no     *)
(* cell after the label, is not counted, and a row is counted once.        *)

\* The label rows that have a non-empty element for a cell that exists.
RowsWithValue ==
    {k \in LogIds :
        /\ LabelRowUnder(row_log[k])
        /\ \E i \in 1..Len(StoredFor(row_log[k])) :
              /\ i + 1 <= Len(CellsBefore(row_log[k]))
              /\ StoredFor(row_log[k])[i] # ""}

\* C6: the count is the number of rows with at least one cell written.
C6_CountIsRowsWritten ==
    /\ tables_updated = Cardinality(RowsWithValue)
    /\ \A k \in LogIds : row_log[k].wrote # {} <=> k \in RowsWithValue

C6_Witness ==
    /\ pc = "done"
    /\ tables_updated = 1
    /\ \E k \in LogIds :
          /\ LabelRowUnder(row_log[k])
          /\ \A i \in 1..Len(StoredFor(row_log[k])) : StoredFor(row_log[k])[i] = ""
    /\ \E k \in LogIds : Cardinality(row_log[k].wrote) >= 3

----------------------------------------------------------------------------
(* C7: a harvested value cell whose text is 'nan' in any letter case is    *)
(* stored as the empty string, no stored element is the absent marker, and *)
(* the injection does not write the cell of that position.                 *)

\* C7: 'nan' in any case is stored as '' and its cell is not written.
C7_SentinelStoredEmpty ==
    /\ pc \in {"read_sheet", "scan", "extracted"} =>
        \A k \in 1..Len(extracted_data) :
            \A label \in DOMAIN extracted_data[k].rows :
                LET h == LastHarvest(extracted_data[k].metric, label)
                    df == workbook[h[1]]
                    stored == extracted_data[k].rows[label]
                IN \A v \in 1..Len(stored) :
                      /\ Lower(stored[v]) # "nan"
                      /\ (/\ h[3] + v < NumCols(df)
                          /\ Lower(Strip(Cell(df, h[2] + h[4], h[3] + v))) = "nan")
                         => stored[v] = ""
    /\ \A k \in LogIds :
          LabelRowUnder(row_log[k]) =>
              \A i \in 1..Len(StoredFor(row_log[k])) :
                  StoredFor(row_log[k])[i] = "" => i \notin row_log[k].wrote

C7_Witness ==
    /\ pc = "done"
    /\ \E k \in LogIds :
          LET e == row_log[k] IN
          /\ LabelRowUnder(e)
          /\ e.wrote # {}
          /\ LET h == LastHarvest(e.metric, LabelOf(e)) IN
             \E v \in 1..Len(StoredFor(e)) :
                /\ h[3] + v < NumCols(workbook[h[1]])
                /\ Cell(workbook[h[1]], h[2] + h[4], h[3] + v) = "NaN"
                /\ StoredFor(e)[v] = ""
                /\ v \notin e.wrote
                /\ CellsAfter(e)[v + 1] = "TBD"

----------------------------------------------------------------------------
(* C8: a document row whose label differs from a harvested label only in   *)
(* whitespace, punctuation or letter case is filled, under the active      *)
(* metric, from the tuple harvested for that label.                        *)

\* C8: a row whose label equals a harvested label up to normalization is
\* filled from that label's tuple.
C8_NormalizedLabelFilled ==
    pc = "done" =>
        \A k \in LogIds :
            LET e == row_log[k] IN
            (e.metric # None /\ ~e.header /\ Len(CellsBefore(e)) > 0) =>
                \A label \in DOMAIN RowsOf(extracted_data, e.metric) :
                    Normalize(CellsBefore(e)[1]) = Normalize(label) =>
                        \A i \in 1..Len(RowsOf(extracted_data, e.metric)[label]) :
                            (/\ i + 1 <= Len(CellsBefore(e))
                             /\ RowsOf(extracted_data, e.metric)[label][i] # "")
                            => CellsAfter(e)[i + 1]
                                  = RowsOf(extracted_data, e.metric)[label][i]

----------------------------------------------------------------------------
(* C9: a label row under an active metric that has fewer cells than the    *)
(* stored tuple has elements raises nothing, gets each existing cell after *)
(* the label written with the element of the same offset, and the walk     *)
(* goes on over every later row with the active metric unchanged.          *)

\* C9: short label rows raise nothing, get their existing cells written and
\* the walk covers every row.
C9_ShortRowsTolerated ==
    /\ \A k \in LogIds :
          LET e == row_log[k] IN
          (LabelRowUnder(e) /\ Len(CellsBefore(e)) - 1 < Len(StoredFor(e))) =>
              /\ ~e.raised
              /\ e.metric_after = e.metric
              /\ Len(CellsAfter(e)) = Len(CellsBefore(e))
              /\ CellsAfter(e)[1] = CellsBefore(e)[1]
              /\ \A i \in 1..(Len(CellsBefore(e)) - 1) :
                    CellsAfter(e)[i + 1] =
                        IF StoredFor(e)[i] # "" THEN StoredFor(e)[i]
                        ELSE CellsBefore(e)[i + 1]
    /\ pc = "done" =>
          \A t \in 1..Len(doc) : \A r \in 1..Len(doc[t]) :
              \E k \in LogIds : row_log[k].t = t /\ row_log[k].r = r

C9_Witness ==
    /\ pc = "done"
    /\ \E k \in LogIds :
          LET e == row_log[k] IN
          /\ LabelRowUnder(e)
          /\ Len(CellsBefore(e)) = 3
          /\ e.wrote = {1, 2}
          /\ StoredFor(e)[3] # ""
          /\ \E k2 \in LogIds :
                /\ k2 > k
                /\ row_log[k2].t = e.t
                /\ row_log[k2].metric = e.metric
                /\ row_log[k2].wrote # {}

----------------------------------------------------------------------------
(* C10: whatever the shape of the grids, an index outside the grid never   *)
(* ends the scan: every anchor in an existing cell of every sheet          *)
(* contributes its label rows to the result (the reader not failing).      *)

\* C10: every anchor of every sheet has its label rows in the result.
C10_OutOfBoundsNeverEndsScan ==
    (pc = "extracted" /\ excel_error \notin {"ExcelFile", "read_excel"}) =>
        \A j \in MetricIds :
            \A a \in AnchorsOf(TARGET_METRICS[j]) :
                /\ HasKey(extracted_data, TARGET_METRICS[j])
                /\ \A i \in LookAhead :
                      (/\ a[2] + i < NumRows(workbook[a[1]])
                       /\ ~SkipLabel(LabelAt(a[1], a[2] + i, a[3])))
                      => LabelAt(a[1], a[2] + i, a[3])
                            \in DOMAIN RowsOf(extracted_data, TARGET_METRICS[j])

----------------------------------------------------------------------------
(* C11: when opening, reading or scanning raises, the function returns     *)
(* without propagating, and the result holds every entry harvested from    *)
(* the cells scanned before the failure, as it stood then.                 *)

\* C11: after a failure every harvest made from a scanned anchor is in the
\* result with the tuple of its pair's last scanned harvest.
C11_PartialResultsKept ==
    (pc = "extracted" /\ excel_error # None) =>
        \A j \in MetricIds :
            \A a \in {b \in AnchorsOf(TARGET_METRICS[j]) : Scanned(b[1], b[2], b[3])} :
                /\ HasKey(extracted_data, TARGET_METRICS[j])
                /\ \A i \in LookAhead :
                      (/\ a[2] + i < NumRows(workbook[a[1]])
                       /\ ~SkipLabel(LabelAt(a[1], a[2] + i, a[3])))
                      => LET label == LabelAt(a[1], a[2] + i, a[3])
                             rows == RowsOf(extracted_data, TARGET_METRICS[j])
                         IN /\ label \in DOMAIN rows
                            /\ rows[label] = TupleAt(LastHarvest(TARGET_METRICS[j], label))

C11_Witness ==
    /\ pc = "extracted"
    /\ excel_error = "IndexError"
    /\ sheet_idx = 2
    /\ HasKey(extracted_data, MPA)
    /\ "Inpatient IN" \in DOMAIN RowsOf(extracted_data, MPA)
    /\ RowsOf(extracted_data, MPA)["Inpatient IN"][1] = "120"

----------------------------------------------------------------------------
(* C12: when no scanned cell of any sheet holds a cataloged metric the     *)
(* extraction returns the empty mapping, and a pass with the empty mapping *)
(* returns 0 and changes no cell.                                          *)

\* C12: no anchor gives an empty result; an empty result gives count 0 and
\* an untouched document.
C12_NoMatchNoChange ==
    /\ (pc = "extracted" /\ \A j \in MetricIds : AnchorsOf(TARGET_METRICS[j]) = {})
          => extracted_data = <<>>
    /\ (pc \in {"inject", "done"} /\ extracted_data = <<>>)
          => /\ tables_updated = 0
             /\ doc = word_file
             /\ current_metric = None

C12_Witness ==
    /\ pc = "done"
    /\ NoRaise
    /\ extracted_data = <<>>
    /\ \E s \in SheetIds : \E r \in RowIds(s) :
          LabelAt(s, r, 0) = "submittedforpriorauth"
    /\ \E t \in 1..Len(doc) :
          /\ Len(doc[t]) >= 2
          /\ doc[t][1][1] = MPA
          /\ doc[t][2] = <<"Inpatient IN", "TBD", "TBD", "TBD", "TBD">>
    /\ tables_updated = 0

----------------------------------------------------------------------------
(* C13: every table starts with no active metric, so a label row is        *)
(* written only under a header row met earlier in the same table, with no  *)
(* blank row in between.                                                   *)

\* The row was a reset row: its first cell is blank.
BlankRow(e) == Len(CellsBefore(e)) > 0 /\ LabelOf(e) = ""

\* C13: the first row of a table is processed with no active metric, and a
\* written row has its header earlier in its own table.
C13_TablesIndependent ==
    /\ (pc = "inject" /\ row_pos = 1) => current_metric = None
    /\ \A k \in LogIds :
          /\ row_log[k].r = 1 => row_log[k].metric = None
          /\ row_log[k].wrote # {} =>
                \E h \in 1..(k - 1) :
                    /\ row_log[h].t = row_log[k].t
                    /\ row_log[h].header
                    /\ row_log[h].metric_after = row_log[k].metric
                    /\ \A b \in (h + 1)..(k - 1) : ~BlankRow(row_log[b])

C13_Witness ==
    /\ pc = "done"
    /\ \E k \in LogIds \ {1} :
          /\ row_log[k].t = 2
          /\ row_log[k].r = 1
          /\ row_log[k - 1].t = 1
          /\ row_log[k - 1].wrote # {}
          /\ row_log[k - 1].metric_after = MPA
          /\ LabelOf(row_log[k]) \in DOMAIN RowsOf(extracted_data, MPA)
          /\ row_log[k].metric = None
          /\ row_log[k].wrote = {}
          /\ CellsAfter(row_log[k]) = CellsBefore(row_log[k])

----------------------------------------------------------------------------
(* C14: a header row whose first cell holds the canonical name of a metric *)
(* that is a key of the result activates that metric, also when the name   *)
(* contains the name of another key, and the label rows up to the next     *)
(* header or reset are filled from that metric's entry.                    *)

\* The keys of the result whose name the row's first cell contains.
NamedIn(e) ==
    IF Len(CellsBefore(e)) = 0 THEN {}
    ELSE {extracted_data[k].metric : k \in
             {x \in 1..Len(extracted_data) :
                 MetricIn(extracted_data[x].metric, LabelOf(e))}}

\* The metric the header row names: the key it spells out exactly, or the
\* only key it contains.
NamedMetric(e) ==
    IF LabelOf(e) \in NamedIn(e) THEN LabelOf(e)
    ELSE CHOOSE m \in NamedIn(e) : TRUE

\* Row k lies under the header row h: same table, no header or blank row
\* in between.
UnderHeader(h, k) ==
    /\ h < k
    /\ row_log[h].t = row_log[k].t
    /\ \A b \in (h + 1)..k : NamedIn(row_log[b]) = {} /\ ~BlankRow(row_log[b])

\* C14: the named metric becomes the active one and the rows under the
\* header are filled from its entry.
C14_HeaderSelectsNamedMetric ==
    \A h \in LogIds :
        LET e == row_log[h] IN
        (NamedIn(e) # {} /\ (LabelOf(e) \in NamedIn(e) \/ Cardinality(NamedIn(e)) = 1)) =>
            /\ e.metric_after = NamedMetric(e)
            /\ \A k \in LogIds :
                  (/\ UnderHeader(h, k)
                   /\ Len(CellsBefore(row_log[k])) > 0
                   /\ LabelOf(row_log[k]) \in DOMAIN RowsOf(extracted_data, NamedMetric(e)))
                  => LET stored == RowsOf(extracted_data, NamedMetric(e))[LabelOf(row_log[k])]
                     IN \A i \in 1..Len(stored) :
                           (i + 1 <= Len(CellsBefore(row_log[k])) /\ stored[i] # "")
                           => CellsAfter(row_log[k])[i + 1] = stored[i]

----------------------------------------------------------------------------
(* C15: when a text contains the names of several catalog metrics, only    *)
(* the earliest-declared one is selected: the scan anchors that metric     *)
(* alone and creates no entry for the others, and the injector activates   *)
(* it for a header row whatever the insertion order of the result.         *)

\* The catalog positions of the metrics a text contains.
MatchesOf(text) == {j \in MetricIds : MetricIn(TARGET_METRICS[j], text)}

\* The earliest-declared metric a text contains.
EarliestMatch(text) ==
    LET js == MatchesOf(text)
    IN TARGET_METRICS[CHOOSE j \in js : \A x \in js : j <= x]

\* C15: every entry of the result comes from a cell whose earliest-declared
\* match is its metric, and a header row activates the earliest-declared
\* metric among the keys it contains.
C15_EarliestDeclaredOnly ==
    /\ (pc = "extracted" /\ NoRaise) =>
          \A k \in 1..Len(extracted_data) :
              \E a \in AnchorsOf(extracted_data[k].metric) :
                  EarliestMatch(LabelAt(a[1], a[2], a[3])) = extracted_data[k].metric
    /\ \A h \in LogIds :
          NamedIn(row_log[h]) # {} =>
              row_log[h].metric_after
                  = TARGET_METRICS[CHOOSE j \in MetricIds :
                        /\ TARGET_METRICS[j] \in NamedIn(row_log[h])
                        /\ \A x \in MetricIds :
                              TARGET_METRICS[x] \in NamedIn(row_log[h]) => j <= x]

----------------------------------------------------------------------------
(* C16: the inner keys of the result are category labels only; any other   *)
(* text met below an anchor (a title, a note, the name of the next metric) *)
(* is never stored as a label.                                             *)

\* The four category labels of the design (care setting x network status).
\* app.py declares no such set.
CategoryLabels == {"Inpatient IN", "Inpatient OON", "Outpatient IN", "Outpatient OON"}

\* C16: every inner key of every entry is one of the four category labels.
C16_ClosedLabelSet ==
    \A k \in 1..Len(extracted_data) :
        \A label \in DOMAIN extracted_data[k].rows :
            Normalize(label) \in {Normalize(t) : t \in CategoryLabels}

----------------------------------------------------------------------------
(* C17: a row whose first cell is blank ends the active metric; the rows   *)
(* after it stay unwritten until a later header row activates a metric.    *)

\* C17: after a blank row no metric is active, and every row of the table
\* up to the next header row is processed with no metric and left as it was.
C17_BlankRowResets ==
    \A b \in LogIds :
        BlankRow(row_log[b]) =>
            /\ row_log[b].metric_after = None
            /\ row_log[b].wrote = {}
            /\ \A k \in LogIds :
                  (/\ b < k
                   /\ row_log[k].t = row_log[b].t
                   /\ \A x \in (b + 1)..(k - 1) : ~row_log[x].header)
                  => /\ row_log[k].metric = None
                     /\ ~row_log[k].header =>
                           /\ row_log[k].wrote = {}
                           /\ CellsAfter(row_log[k]) = CellsBefore(row_log[k])

\* A blank row met under an active metric, followed by a label row that the
\* metric's entry has values for, which stays empty.
C17_Witness ==
    /\ pc = "done"
    /\ \E b \in LogIds :
          /\ BlankRow(row_log[b])
          /\ row_log[b].metric = MDen
          /\ b + 1 \in LogIds
          /\ row_log[b + 1].t = row_log[b].t
          /\ LabelOf(row_log[b + 1]) \in DOMAIN RowsOf(extracted_data, MDen)
          /\ RowsOf(extracted_data, MDen)[LabelOf(row_log[b + 1])][1] # ""
          /\ Len(CellsBefore(row_log[b + 1])) = 5
          /\ row_log[b + 1].wrote = {}
          /\ CellsAfter(row_log[b + 1]) = <<"Inpatient IN", "", "", "", "">>

----------------------------------------------------------------------------
(* C18: an anchor at row r harvests label rows only from rows r+1 .. r+W,  *)
(* for one fixed W between 10 and 15; a label row further below, or at or  *)
(* above the anchor, never contributes to that anchor's metric.            *)

\* The rows of the grid inside the window of an anchor at row r.
WindowRows(s, r, W) == {x \in RowIds(s) : r < x /\ x <= r + W}

\* C18: W is 14; every stored tuple is the tuple of a row inside the window
\* of a scanned anchor of its metric, and every labelled row inside such a
\* window, the last one included, has its label stored.
C18_BoundedWindow ==
    LET W == WindowStop - 1 IN
    /\ W \in 10..15
    /\ pc \in {"read_sheet", "scan", "extracted"} =>
          \A k \in 1..Len(extracted_data) :
              LET m == extracted_data[k].metric
                  done == {a \in AnchorsOf(m) : Scanned(a[1], a[2], a[3])}
              IN /\ \A label \in DOMAIN extracted_data[k].rows :
                        \E a \in done : \E x \in WindowRows(a[1], a[2], W) :
                            /\ LabelAt(a[1], x, a[3]) = label
                            /\ extracted_data[k].rows[label]
                                   = ReadVals(workbook[a[1]], x, a[3])
                 /\ \A a \in done : \A x \in WindowRows(a[1], a[2], W) :
                        ~SkipLabel(LabelAt(a[1], x, a[3]))
                        => LabelAt(a[1], x, a[3]) \in DOMAIN extracted_data[k].rows

\* The only anchor of the metric is at row 0; the label has a row just
\* below it and another 15 rows below it with other values: the stored tuple
\* is the one of the near row.
C18_Witness ==
    /\ pc = "extracted"
    /\ NoRaise
    /\ AnchorsOf(MDen) = {<<1, 0, 0>>}
    /\ HasKey(extracted_data, MDen)
    /\ NumRows(workbook[1]) > 15
    /\ LabelAt(1, 1, 0) = "Inpatient IN"
    /\ LabelAt(1, 15, 0) = "Inpatient IN"
    /\ \A x \in 2..14 : LabelAt(1, x, 0) # "Inpatient IN"
    /\ ReadVals(workbook[1], 15, 0) # ReadVals(workbook[1], 1, 0)
    /\ RowsOf(extracted_data, MDen)["Inpatient IN"] = ReadVals(workbook[1], 1, 0)

----------------------------------------------------------------------------
(* C19: every stored tuple has the same fixed length, 4, in left-to-right  *)
(* order starting right of the label cell; a position past the right edge  *)
(* of the grid holds the empty string and does not shorten the tuple.      *)

\* The text the scan stores for the cell (r, c): stripped, the absent marker
\* replaced by the empty string.
StoredText(s, r, c) ==
    LET text == Strip(Cell(workbook[s], r, c))
    IN IF Lower(text) = "nan" THEN "" ELSE text

\* C19: each stored tuple has 4 elements; element v is the text of the cell
\* v columns right of the label cell of the harvest it comes from, or the
\* empty string when that column is outside the grid.
C19_FixedWidthTuple ==
    pc \in {"read_sheet", "scan", "extracted"} =>
        \A k \in 1..Len(extracted_data) :
            \A label \in DOMAIN extracted_data[k].rows :
                LET vals == extracted_data[k].rows[label]
                    h == LastHarvest(extracted_data[k].metric, label)
                IN /\ DOMAIN vals = 1..4
                   /\ \A v \in 1..4 :
                         vals[v] = IF h[3] + v < NumCols(workbook[h[1]])
                                   THEN StoredText(h[1], h[2] + h[4], h[3] + v)
                                   ELSE ""

\* A label row with one value column in a grid two columns wide: the tuple
\* still has 4 elements, the last three empty.
C19_Witness ==
    /\ pc = "extracted"
    /\ NoRaise
    /\ NumCols(workbook[1]) = 2
    /\ HasKey(extracted_data, MPA)
    /\ "Inpatient IN" \in DOMAIN RowsOf(extracted_data, MPA)
    /\ RowsOf(extracted_data, MPA)["Inpatient IN"] = <<"120", "", "", "">>

----------------------------------------------------------------------------
(* C20: the injector never changes the first cell of a row, any cell of a  *)
(* header row, or any cell while no metric is active; the only text it     *)
(* writes is the non-empty element i of the active metric's tuple for the  *)
(* row's label, at cell i+1; the extraction result is not modified.        *)

\* The log entries of row r of table t.
EntriesOf(t, r) == {k \in LogIds : row_log[k].t = t /\ row_log[k].r = r}

\* What the pass has done to the document so far.
WriteFrame ==
    pc \in {"inject", "done"} =>
        /\ Len(doc) = Len(doc_in)
        /\ \A t \in 1..Len(doc_in) :
              /\ Len(doc[t]) = Len(doc_in[t])
              /\ \A r \in 1..Len(doc_in[t]) :
                    LET before == doc_in[t][r]
                        after == doc[t][r]
                    IN /\ Len(after) = Len(before)
                       /\ Len(before) > 0 => after[1] = before[1]
                       /\ EntriesOf(t, r) = {} => after = before
                       /\ \A k \in EntriesOf(t, r) :
                             LET e == row_log[k] IN
                             IF e.header \/ e.metric = None \/ ~LabelRowUnder(e)
                             THEN after = before
                             ELSE \A c \in 2..Len(before) :
                                     \/ after[c] = before[c]
                                     \/ /\ c - 1 <= Len(StoredFor(e))
                                        /\ StoredFor(e)[c - 1] # ""
                                        /\ after[c] = StoredFor(e)[c - 1]

\* C20: the frame holds in every state of the pass, and no step taken once
\* the extraction has returned changes its result.
C20_WriteFrame ==
    /\ []WriteFrame
    /\ [][(pc \in {"extracted", "inject", "done"}) => (extracted_data' = extracted_data)]_vars

\* A pass that has met a header row, a row with no active metric and a
\* written label row whose tuple has an empty element: only the cells of the
\* non-empty elements differ from the document handed in.
C20_Witness ==
    /\ pc = "done"
    /\ extracted_data # <<>>
    /\ \E k \in LogIds : row_log[k].header /\ CellsAfter(row_log[k]) = CellsBefore(row_log[k])
    /\ \E k \in LogIds : ~row_log[k].header /\ row_log[k].metric = None
                         /\ Len(CellsBefore(row_log[k])) > 1
    /\ \E k \in LogIds :
          LET e == row_log[k] IN
          /\ LabelRowUnder(e)
          /\ Len(CellsBefore(e)) = 5
          /\ StoredFor(e)[1] # "" /\ StoredFor(e)[4] = ""
          /\ CellsAfter(e)[1] = CellsBefore(e)[1]
          /\ CellsAfter(e)[2] = StoredFor(e)[1]
          /\ CellsAfter(e)[2] # CellsBefore(e)[2]
          /\ CellsAfter(e)[5] = CellsBefore(e)[5]

====
